---------------------------- MODULE Spec2Model ----------------------------
(***************************************************************************)
(* A model of jigs10/chat-stream: the chat client (components/chat-view.tsx)*)
(* and the streaming relay with its conversation cache                     *)
(* (app/api/chat/route.ts).                                                *)
(*                                                                         *)
(* Text is a sequence of Unicode code points, a byte string a sequence of  *)
(* numbers 0..255.  An async function is modelled one action per segment   *)
(* between two awaits: JavaScript runs such a segment without interleaving.*)
(* Three specifications share the variables:                               *)
(*   Spec        the relay's POST handler, its cache and the clock, with   *)
(*               concurrent requests;                                      *)
(*   SpecStream  one relay request's streaming pipeline, the upstream      *)
(*               byte stream cut into chunks at any byte;                  *)
(*   SpecClient  the ChatView component: session id, transcript, turns.    *)
(* The texts carry no U+FEFF, so TextDecoder's byte-order-mark rule never  *)
(* applies and is not modelled.                                            *)
(***************************************************************************)
EXTENDS Integers, Sequences, FiniteSets, TLC

----------------------------------------------------------------------------
(* Bounds of the model *)

\* Submissions that reach handleSend in one run of the client.
MaxTurns == 2
\* Bytes of response bodies the client is sent in one run, all turns together.
MaxBodyBytes == 5
\* Requests the relay serves at the same time.
MaxReq == 2
\* Times the relay reads a later time from the clock than it did before.
MaxTicks == 2
\* Session identifiers the relay generates for requests that carry none.
MaxGenerated == 1
\* Events of one upstream reply.
MaxEvents == 3

\* Identifiers crypto.randomUUID may have handed out when a page is reloaded.
MaxIds == 4

\* The events of an upstream body in the specifications with fairness.
MaxLiveEvents == 2

----------------------------------------------------------------------------
(* Text and bytes *)

null == 0

\* "Thinking…" (chat-view.tsx:153, 191)
Thinking == <<84, 104, 105, 110, 107, 105, 110, 103, 8230>>

\* "Something went wrong. Please try again." (chat-view.tsx:197)
GenericError == "Something went wrong. Please try again."

REPLACEMENT == 65533

IsSpace(c) == c \in {9, 10, 11, 12, 13, 32}

RECURSIVE TrimStart(_)
TrimStart(s) ==
  IF s # <<>> /\ IsSpace(Head(s)) THEN TrimStart(Tail(s)) ELSE s

RECURSIVE TrimEnd(_)
TrimEnd(s) ==
  IF s # <<>> /\ IsSpace(s[Len(s)]) THEN TrimEnd(SubSeq(s, 1, Len(s) - 1)) ELSE s

\* String.prototype.trim
Trim(s) == TrimEnd(TrimStart(s))

RECURSIVE Concat(_)
Concat(ss) == IF ss = <<>> THEN <<>> ELSE Head(ss) \o Concat(Tail(ss))

\* TextEncoder.encode of one code point: UTF-8, a lone surrogate as U+FFFD.
EncodeCodePoint(c) ==
  LET k == IF c >= 55296 /\ c <= 57343 THEN REPLACEMENT ELSE c IN
  IF k < 128 THEN <<k>>
  ELSE IF k < 2048 THEN <<192 + (k \div 64), 128 + (k % 64)>>
  ELSE IF k < 65536
    THEN <<224 + (k \div 4096), 128 + ((k \div 64) % 64), 128 + (k % 64)>>
    ELSE <<240 + (k \div 262144), 128 + ((k \div 4096) % 64),
           128 + ((k \div 64) % 64), 128 + (k % 64)>>

RECURSIVE Encode(_)
Encode(text) ==
  IF text = <<>> THEN <<>> ELSE EncodeCodePoint(Head(text)) \o Encode(Tail(text))

\* The state of a UTF-8 TextDecoder between two calls.
DecoderInit == [needed |-> 0, seen |-> 0, cp |-> 0, lower |-> 128, upper |-> 191]

\* The UTF-8 decoder run over bytes from state st, out the text decoded so far.
RECURSIVE Utf8Run(_, _, _)
Utf8Run(st, bytes, out) ==
  IF bytes = <<>> THEN [st |-> st, out |-> out]
  ELSE
    LET b == Head(bytes)
        rest == Tail(bytes)
    IN
    IF st.needed = 0 THEN
      CASE b <= 127 -> Utf8Run(st, rest, Append(out, b))
        [] b >= 194 /\ b <= 223 ->
             Utf8Run([DecoderInit EXCEPT !.needed = 1, !.cp = b % 32], rest, out)
        [] b >= 224 /\ b <= 239 ->
             Utf8Run([needed |-> 2, seen |-> 0, cp |-> b % 16,
                      lower |-> IF b = 224 THEN 160 ELSE 128,
                      upper |-> IF b = 237 THEN 159 ELSE 191], rest, out)
        [] b >= 240 /\ b <= 244 ->
             Utf8Run([needed |-> 3, seen |-> 0, cp |-> b % 8,
                      lower |-> IF b = 240 THEN 144 ELSE 128,
                      upper |-> IF b = 244 THEN 143 ELSE 191], rest, out)
        [] OTHER -> Utf8Run(st, rest, Append(out, REPLACEMENT))
    ELSE IF b < st.lower \/ b > st.upper THEN
      \* the byte is read again in the initial state
      Utf8Run(DecoderInit, bytes, Append(out, REPLACEMENT))
    ELSE
      LET cp2 == st.cp * 64 + (b % 64) IN
      IF st.seen + 1 = st.needed
        THEN Utf8Run(DecoderInit, rest, Append(out, cp2))
        ELSE Utf8Run([st EXCEPT !.seen = st.seen + 1, !.cp = cp2,
                               !.lower = 128, !.upper = 191], rest, out)

\* A decoder that forgets the unfinished character at the end of each call.
DecodeEachChunkAlone(st, bytes) == [st |-> DecoderInit, out |-> Utf8Run(DecoderInit, bytes, <<>>).out \o
                                     (IF Utf8Run(DecoderInit, bytes, <<>>).st.needed # 0 THEN <<REPLACEMENT>> ELSE <<>>)]

\* decoder.decode(value, { stream: true }): bytes of an unfinished character
\* stay in the decoder for the next call.
DecodeStream(st, bytes) == Utf8Run(st, bytes, <<>>)

\* decoder.decode(value): the call ends the input, an unfinished character
\* becomes U+FFFD and the decoder starts afresh.
Decode(bytes) ==
  LET r == Utf8Run(DecoderInit, bytes, <<>>) IN
  IF r.st.needed # 0 THEN Append(r.out, REPLACEMENT) ELSE r.out


----------------------------------------------------------------------------
(* State *)

VARIABLES
  \* ---- the client, components/chat-view.tsx ----
  sessionId,      \* useState sessionId: null or an identifier
  messages,       \* useState messages: the transcript
  loading,        \* useState loading
  error,          \* useState error: "null" or the message shown
  mounted,        \* the session effect: "no", "yes", or "crashed" (it threw)
  localStorage,   \* the item "chat_session_id": null or the identifier stored
  storageMode,    \* "ok", "noread" (getItem throws) or "nowrite" (setItem throws)
  uuid,           \* identifiers crypto.randomUUID has handed out
  turns,          \* the calls of handleSend, each with its closure and position;
                  \* stream is the whole body the response carries, body what of
                  \* it is still to be read, cut whether a read ended inside a
                  \* character
  requests,       \* the bodies POSTed to /api/chat, in order
  \* ---- the relay, app/api/chat/route.ts ----
  conversations,  \* the Map conversations: session id -> StoredConversation
  apiKey,         \* whether process.env.GEMINI_API_KEY is set
  now,            \* Date.now() as last read
  ticks,          \* how often a read of the clock gave a later time
  generated,      \* session identifiers crypto.randomUUID has made for the relay
  reqs,           \* the calls of POST in progress, each with its locals and position;
                  \* events is what the upstream sends in all, up what of it is
                  \* still to be read, whole whether every read so far ended
                  \* where an event ends
  response        \* the response POST completed last: what the client was sent

clientVars ==
  <<sessionId, messages, loading, error, mounted, localStorage, storageMode,
    uuid, turns, requests>>

relayVars == <<conversations, apiKey, now, ticks, generated, reqs, response>>

vars == <<clientVars, relayVars>>

----------------------------------------------------------------------------
(* The client: ChatView *)

\* What the user may have typed into the message field.
RawInputs == {<<>>, <<32>>, <<32, 72, 105, 32>>}

\* The characters a response body is made of: A, e-acute, the euro sign and
\* an emoji, of 1, 2, 3 and 4 bytes.
BodyChars == {65, 233, 8364, 128512}

RECURSIVE TextsUpTo(_, _)
TextsUpTo(chars, n) ==
  IF n = 0 THEN {<<>>}
  ELSE LET shorter == TextsUpTo(chars, n - 1) IN
       shorter \cup {Append(t, c) : t \in shorter, c \in chars}

\* The response bodies the client may be sent: every text over BodyChars
\* encoded, and two byte strings that are not UTF-8 (a character cut short, a
\* byte that starts nothing), of at most MaxBodyBytes bytes.
ResponseBodies ==
  {b \in {Encode(t) : t \in TextsUpTo(BodyChars, MaxBodyBytes)} \cup {<<195>>, <<255, 65>>} :
     Len(b) <= MaxBodyBytes}

RECURSIVE BytesSent(_)
BytesSent(ts) == IF ts = <<>> THEN 0 ELSE Len(Head(ts).stream) + BytesSent(Tail(ts))

\* The statuses of a response that is not ok.
ErrorStatuses == {500, 502}

DisabledWithoutSessionOnly == sessionId = null

\* input and button: disabled={loading || !sessionId}
inputDisabled == loading \/ sessionId = null

\* As if the effect made a new identifier whatever is stored.
MountAlwaysGenerates ==
  /\ mounted = "no"
  /\ mounted' = "yes"
  /\ uuid' = uuid + 1
  /\ sessionId' = uuid + 1
  /\ localStorage' = uuid + 1
  /\ UNCHANGED <<messages, loading, error, storageMode, turns, requests, relayVars>>

\* The session effect, run once after the first render.
MountEffect ==
  /\ mounted = "no"
  /\ IF storageMode = "noread"
       THEN \* window.localStorage.getItem throws outside any try
            /\ mounted' = "crashed"
            /\ UNCHANGED <<sessionId, localStorage, uuid>>
       ELSE /\ mounted' = "yes"
            /\ IF localStorage # null
                 THEN /\ sessionId' = localStorage
                      /\ UNCHANGED <<localStorage, uuid>>
                 ELSE /\ uuid' = uuid + 1
                      /\ sessionId' = uuid + 1
                      /\ localStorage' =
                           IF storageMode = "nowrite" THEN localStorage ELSE uuid + 1
  /\ UNCHANGED <<messages, loading, error, storageMode, turns, requests, relayVars>>

\* [...messages, userMsg].map((m) => ({ role, content }))
RequestMessages(ms) == [i \in 1..Len(ms) |-> [role |-> ms[i].role, content |-> ms[i].content]]

DraftFirst(ms, userMsg, assistantDraft) == ms \o <<assistantDraft, userMsg>>

\* const nextMessages = [...messages, userMsg, assistantDraft]
NextMessages(ms, userMsg, assistantDraft) == ms \o <<userMsg, assistantDraft>>

\* handleSend up to its first await: the transcript gains the user message and
\* the draft, and the request is sent.
handleSend(text) ==
  IF sessionId = null
    THEN UNCHANGED <<messages, loading, error, uuid, turns, requests>>
    ELSE
      LET userMsg == [id |-> uuid + 1, role |-> "user", content |-> text]
          assistantDraft == [id |-> uuid + 2, role |-> "assistant", content |-> Thinking]
          nextMessages == NextMessages(messages, userMsg, assistantDraft)
      IN
      /\ Len(turns) < MaxTurns
      /\ uuid' = uuid + 2
      /\ messages' = nextMessages
      /\ error' = "null"
      /\ loading' = TRUE
      /\ requests' = Append(requests,
           [messages |-> RequestMessages(Append(messages, userMsg)),
            sessionId |-> sessionId])
      /\ turns' = Append(turns,
           [pc |-> "fetch", text |-> text, captured |-> messages,
            draftId |-> assistantDraft.id, acc |-> <<>>, decoder |-> DecoderInit,
            stream |-> <<>>, body |-> <<>>, cut |-> FALSE, status |-> 0])

\* As if the text of the field were taken though the field is disabled.
SubmitThoughDisabled(raw) ==
  /\ mounted # "no"
  /\ IF Trim(raw) = <<>>
       THEN UNCHANGED <<messages, loading, error, uuid, turns, requests>>
       ELSE handleSend(Trim(raw))
  /\ UNCHANGED <<sessionId, mounted, localStorage, storageMode, relayVars>>

\* The form's onSubmit with raw typed into the field.  FormData leaves a
\* disabled control out, so fd.get("message") is then null and text is "".
onSubmit(raw) ==
  LET text == IF inputDisabled THEN <<>> ELSE Trim(raw) IN
  /\ mounted # "no"
  /\ IF text = <<>>
       THEN UNCHANGED <<messages, loading, error, uuid, turns, requests>>
       ELSE handleSend(text)
  /\ UNCHANGED <<sessionId, mounted, localStorage, storageMode, relayVars>>

\* fetch("/api/chat") rejects: catch sets the error, finally clears loading.
FetchRejects(t) ==
  /\ turns[t].pc = "fetch"
  /\ turns' = [turns EXCEPT ![t].pc = "failed"]
  /\ error' = GenericError
  /\ loading' = FALSE
  /\ UNCHANGED <<sessionId, messages, mounted, localStorage, storageMode, uuid, requests,
                 relayVars>>

\* The response is not ok (or has no body): handleSend awaits res.text().
ResponseNotOk(t, st) ==
  /\ turns[t].pc = "fetch"
  /\ turns' = [turns EXCEPT ![t].pc = "text", ![t].status = st]
  /\ UNCHANGED <<sessionId, messages, loading, error, mounted, localStorage,
                 storageMode, uuid, requests, relayVars>>

\* throw new Error(txt || "Request failed"), caught at once.
ThrowRequestFailed(t) ==
  /\ turns[t].pc = "text"
  /\ turns' = [turns EXCEPT ![t].pc = "failed"]
  /\ error' = GenericError
  /\ loading' = FALSE
  /\ UNCHANGED <<sessionId, messages, mounted, localStorage, storageMode, uuid, requests,
                 relayVars>>

\* The response is ok and has a body: the read loop starts.
ResponseOk(t, bytes) ==
  /\ turns[t].pc = "fetch"
  /\ BytesSent(turns) + Len(bytes) <= MaxBodyBytes
  /\ turns' = [turns EXCEPT ![t].pc = "read", ![t].status = 200, ![t].body = bytes,
                            ![t].stream = bytes]
  /\ UNCHANGED <<sessionId, messages, loading, error, mounted, localStorage,
                 storageMode, uuid, requests, relayVars>>

AccOnly(acc) == acc

\* acc || "Thinking…"
DraftContent(acc) == IF acc = <<>> THEN Thinking ELSE acc

\* setMessages((prev) => prev.map((m) => m.id === id ? { ...m, content } : m))
UpdateDraft(prev, id, content) ==
  [i \in 1..Len(prev) |->
     IF prev[i].id = id THEN [prev[i] EXCEPT !.content = content] ELSE prev[i]]

\* One round of the read loop: reader.read() yields the next n bytes.
ReadChunk(t, n) ==
  /\ turns[t].pc = "read"
  /\ n \in 1..Len(turns[t].body)
  /\ LET value == SubSeq(turns[t].body, 1, n)
         d == DecodeStream(turns[t].decoder, value)
         acc == turns[t].acc \o d.out
     IN
     /\ turns' = [turns EXCEPT ![t].acc = acc, ![t].decoder = d.st,
                               ![t].cut = turns[t].cut \/ d.st.needed # 0,
                               ![t].body = SubSeq(turns[t].body, n + 1, Len(turns[t].body))]
     /\ messages' = UpdateDraft(messages, turns[t].draftId, DraftContent(acc))
  /\ UNCHANGED <<sessionId, loading, error, mounted, localStorage, storageMode,
                 uuid, requests, relayVars>>

\* reader.read() yields done: the loop breaks, finally clears loading.
ReadDone(t) ==
  /\ turns[t].pc = "read"
  /\ turns[t].body = <<>>
  /\ turns' = [turns EXCEPT ![t].pc = "completed"]
  /\ loading' = FALSE
  /\ UNCHANGED <<sessionId, messages, error, mounted, localStorage, storageMode,
                 uuid, requests, relayVars>>

\* As if there were no finally: the error is set, loading stays.
RejectWithoutFinally(t) ==
  /\ turns[t].pc = "read"
  /\ turns' = [turns EXCEPT ![t].pc = "failed"]
  /\ error' = GenericError
  /\ UNCHANGED <<sessionId, messages, loading, mounted, localStorage, storageMode, uuid,
                 requests, relayVars>>

\* reader.read() rejects while the body is being read.
ReadRejects(t) ==
  /\ turns[t].pc = "read"
  /\ turns' = [turns EXCEPT ![t].pc = "failed"]
  /\ error' = GenericError
  /\ loading' = FALSE
  /\ UNCHANGED <<sessionId, messages, mounted, localStorage, storageMode, uuid, requests,
                 relayVars>>

\* The page is loaded anew: ChatView is mounted with its initial state, the
\* calls of handleSend of the page before are gone, what is stored stays.
Reload ==
  /\ mounted # "no"
  /\ uuid - 100 < MaxIds
  /\ sessionId' = null
  /\ messages' = <<>>
  /\ loading' = FALSE
  /\ error' = "null"
  /\ mounted' = "no"
  /\ turns' = [t \in 1..Len(turns) |-> [turns[t] EXCEPT !.pc = "unloaded"]]
  /\ UNCHANGED <<localStorage, storageMode, uuid, requests, relayVars>>

ClientInit ==
  /\ sessionId = null
  /\ messages = <<>>
  /\ loading = FALSE
  /\ error = "null"
  /\ mounted = "no"
  /\ uuid = 100
  /\ turns = <<>>
  /\ requests = <<>>

----------------------------------------------------------------------------
(* The relay: POST and the conversation cache *)

\* const CONVO_TTL_MS = 60 * 60 * 1000
CONVO_TTL_MS == 60 * 60 * 1000

\* A slot in which no call of POST runs.
NoRequest ==
  [pc |-> "none", calls |-> 0, upStatus |-> 0, status |-> 0,
   events |-> <<>>, up |-> <<>>, pos |-> 0, whole |-> TRUE,
   fullText |-> <<>>, out |-> <<>>, aborted |-> FALSE]

\* No response yet.
NoResponse ==
  [status |-> 0, text |-> "", bodyStatus |-> 0, calls |-> 0, upStatus |-> 0,
   events |-> <<>>, whole |-> TRUE, fullText |-> <<>>, out |-> <<>>, closed |-> FALSE,
   aborted |-> FALSE]

Hi == <<72, 105>>

\* The bodies of which req.json() gives a value that can be destructured.
\* shape "notarray": messages is a value without map, such as a string;
\* "ok": messages is a list of { role, content }.
RequestBodies ==
  { [shape |-> "notarray", msgs |-> <<>>, sessionId |-> 1],
    [shape |-> "ok", msgs |-> <<[role |-> "user", content |-> Hi]>>, sessionId |-> 1],
    [shape |-> "ok",
     msgs |-> <<[role |-> "user", content |-> Hi], [role |-> "assistant", content |-> <<>>],
               [role |-> "user", content |-> Hi]>>,
     sessionId |-> 2],
    [shape |-> "ok",
     msgs |-> <<[role |-> "user", content |-> Hi], [role |-> "assistant", content |-> <<>>]>>,
     sessionId |-> null] }

KeepAll(conv, t) == conv

\* cleanupExpired with now = t: the entries of conv that stay.
cleanupExpired(conv, t) ==
  [k \in {j \in DOMAIN conv : ~(conv[j].expiresAt <= t)} |-> conv[k]]

\* (messages || []).filter((m) => !(m.role === "assistant" && !m.content))
RECURSIVE toStore(_)
toStore(ms) ==
  IF ms = <<>> THEN <<>>
  ELSE IF Head(ms).role = "assistant" /\ Head(ms).content = <<>>
    THEN toStore(Tail(ms))
    ELSE <<Head(ms)>> \o toStore(Tail(ms))

\* As if the map were replaced by one that holds the new entry alone.
SetAlone(conv, sid, value) == [k \in {sid} |-> value]

\* conversations.set(sid, value)
MapSet(conv, sid, value) ==
  [k \in DOMAIN conv \cup {sid} |-> IF k = sid THEN value ELSE conv[k]]

\* A request arrives in the lowest free slot: POST starts and awaits
\* req.json().
Receive(r) ==
  /\ reqs[r].pc = "none"
  /\ \A q \in 1..(r - 1) : reqs[q].pc # "none"
  /\ reqs' = [reqs EXCEPT ![r] = [NoRequest EXCEPT !.pc = "json"]]
  /\ UNCHANGED <<conversations, apiKey, now, ticks, generated, response, clientVars>>

\* POST returns new Response(text, { status }) for call r.
Respond(r, status, text, bodyStatus) ==
  [NoResponse EXCEPT !.status = status, !.text = text,
                     !.bodyStatus = bodyStatus, !.calls = reqs[r].calls,
                     !.upStatus = reqs[r].upStatus, !.aborted = reqs[r].aborted]

\* await req.json() rejects (the body is not JSON), or its value cannot be
\* destructured (it is null): the catch answers 400.
ParseFails(r) ==
  /\ reqs[r].pc = "json"
  /\ response' = Respond(r, 400, "Bad Request", 0)
  /\ reqs' = [reqs EXCEPT ![r] = NoRequest]
  /\ UNCHANGED <<conversations, apiKey, now, ticks, generated, clientVars>>

\* const sid = sessionId || crypto.randomUUID()
SessionOf(body) == IF body.sessionId = null THEN 1000 + generated + 1 ELSE body.sessionId

KeyCheckSkipped == FALSE

\* if (!apiKey)
KeyMissing == ~apiKey

\* POST from the value body of req.json() to await fetch(url, ...): the sweep,
\* the session id, the credential, the mapping of the messages, the cache
\* entry and the upstream call.  Date.now() is read here and nowhere else: it
\* gives t, the time last read or a later one.
PostSync(r, body, t) ==
  LET swept == cleanupExpired(conversations, t)
      fresh == body.sessionId = null
      sid == SessionOf(body)
  IN
  /\ reqs[r].pc = "json"
  /\ t >= now
  /\ t > now => ticks < MaxTicks
  /\ fresh => generated < MaxGenerated
  /\ now' = t
  /\ ticks' = IF t > now THEN ticks + 1 ELSE ticks
  /\ generated' = IF fresh THEN generated + 1 ELSE generated
  /\ IF KeyMissing
       THEN /\ response' = Respond(r, 500, "Missing GEMINI_API_KEY", 0)
            /\ reqs' = [reqs EXCEPT ![r] = NoRequest]
            /\ conversations' = swept
       ELSE IF body.shape = "notarray"
       THEN \* messages.map is not a function: the catch answers 400
            /\ response' = Respond(r, 400, "Bad Request", 0)
            /\ reqs' = [reqs EXCEPT ![r] = NoRequest]
            /\ conversations' = swept
       ELSE /\ conversations' = MapSet(swept, sid,
                 [messages |-> toStore(body.msgs), expiresAt |-> t + CONVO_TTL_MS])
            /\ reqs' = [reqs EXCEPT ![r].pc = "fetch", ![r].calls = reqs[r].calls + 1]
            /\ UNCHANGED response
  /\ UNCHANGED <<apiKey, clientVars>>

NoSignal(r) == FALSE

\* signal: req.signal -- the upstream call of r has been told to abort.  An
\* aborted fetch rejects if it has not resolved, and the body of its response
\* is errored if it has: nothing more of it is delivered.
SignalAborted(r) == reqs[r].aborted

\* The client of call r goes away while the upstream call is in flight:
\* req.signal is aborted.
Cancel(r) ==
  /\ reqs[r].pc \in {"fetch", "stream"}
  /\ ~reqs[r].aborted
  /\ reqs' = [reqs EXCEPT ![r].aborted = TRUE]
  /\ UNCHANGED <<conversations, apiKey, now, ticks, generated, response, clientVars>>

\* await fetch(...) rejects (no connection, or the request was aborted): the
\* catch answers 400.
FetchFails(r) ==
  /\ reqs[r].pc = "fetch"
  /\ response' = Respond(r, 400, "Bad Request", 0)
  /\ reqs' = [reqs EXCEPT ![r] = NoRequest]
  /\ UNCHANGED <<conversations, apiKey, now, ticks, generated, clientVars>>

UpstreamErrorAs500(st) == [NoResponse EXCEPT !.status = 500, !.text = "Upstream error"]

\* new Response(`Upstream error: ${upstream.status} ...`, { status: 502 })
UpstreamErrorResponse(st) ==
  [NoResponse EXCEPT !.status = 502, !.text = "Upstream error", !.bodyStatus = st]

\* The upstream answers with status st that is not ok, or ok without a body:
\* POST awaits upstream.text(), whose failure is caught, and answers 502.
\* Nothing but this call's own locals is read or written across that await,
\* so it is one step here.
UpstreamError(r, st) ==
  /\ reqs[r].pc = "fetch"
  /\ ~SignalAborted(r)
  /\ response' = [UpstreamErrorResponse(st) EXCEPT !.calls = reqs[r].calls, !.upStatus = st,
                                                     !.aborted = reqs[r].aborted]
  /\ reqs' = [reqs EXCEPT ![r] = NoRequest]
  /\ UNCHANGED <<conversations, apiKey, now, ticks, generated, clientVars>>

\* The upstream statuses that are not ok, and 204: ok without a body.
UpstreamErrorStatuses == {204, 500}

\* By how much the clock may have advanced between two reads.
ClockSteps == {0, 1, CONVO_TTL_MS - 1}

RelayInit ==
  /\ conversations = [k \in {} |-> null]
  /\ now = 0
  /\ ticks = 0
  /\ generated = 0
  /\ reqs = [r \in 1..MaxReq |-> NoRequest]
  /\ response = NoResponse

----------------------------------------------------------------------------
(* The relay: the upstream event stream *)

\* "data:"
DataMarker == <<100, 97, 116, 97, 58>>

LBRACE == 123
RBRACE == 125

\* The characters the regular expression's . does not match.
IsLineTerminator(c) == c \in {10, 13, 8232, 8233}

\* The payload of an event as the upstream writes it.  The JSON around the
\* text is abridged to its braces: {{t}} stands for
\* {"candidates":[{"content":{"parts":[{"text":t}]}}]} and {} for a payload
\* that carries no text.
TextPayload(t) == <<LBRACE, LBRACE>> \o t \o <<RBRACE, RBRACE>>
NoTextPayload == <<LBRACE, RBRACE>>
\* A payload that is not JSON: it lacks a closing brace.
BadPayload == <<LBRACE, LBRACE, 120, RBRACE>>

\* One event of the stream: the marker, a space, the payload, an empty line.
EventLine(payload) == DataMarker \o <<32>> \o payload \o <<10, 10>>

Hel == <<72, 101, 108>>
lo == <<108, 111>>

\* The payloads the upstream may send.
Payloads == {TextPayload(Hel), TextPayload(lo), NoTextPayload, BadPayload}

RECURSIVE EventSeqs(_)
EventSeqs(n) ==
  IF n = 0 THEN {<<>>}
  ELSE LET shorter == EventSeqs(n - 1) IN
       shorter \cup {Append(e, q) : e \in shorter, q \in Payloads}

RECURSIVE StreamBytes(_)
StreamBytes(events) ==
  IF events = <<>> THEN <<>>
  ELSE Encode(EventLine(Head(events))) \o StreamBytes(Tail(events))

\* The byte offsets at which an event of the stream ends.
RECURSIVE EventEnds(_, _)
EventEnds(events, from) ==
  IF events = <<>> THEN {}
  ELSE LET e == from + Len(Encode(EventLine(Head(events)))) IN
       {e} \cup EventEnds(Tail(events), e)

\* JSON.parse(match[1]) and json?.candidates?.[0]?.content?.parts?.[0]?.text ?? "":
\* ok is FALSE when JSON.parse throws.
ParseEvent(capture) ==
  LET n == Len(capture)
      inner == SubSeq(capture, 3, n - 2)
  IN
  IF capture = NoTextPayload THEN [ok |-> TRUE, text |-> <<>>]
  ELSE IF /\ n >= 4
          /\ capture[1] = LBRACE /\ capture[2] = LBRACE
          /\ capture[n - 1] = RBRACE /\ capture[n] = RBRACE
          /\ \A i \in 1..Len(inner) : inner[i] \notin {LBRACE, RBRACE}
    THEN [ok |-> TRUE, text |-> inner]
    ELSE [ok |-> FALSE, text |-> <<>>]

\* Whether s holds t at position p.
HasAt(s, p, t) == p + Len(t) - 1 <= Len(s) /\ SubSeq(s, p, p + Len(t) - 1) = t

RECURSIVE SkipSpace(_, _)
SkipSpace(s, p) == IF p <= Len(s) /\ IsSpace(s[p]) THEN SkipSpace(s, p + 1) ELSE p

\* The end of the line that holds position p: the last position before a line
\* terminator or the end of s.
RECURSIVE LineEnd(_, _)
LineEnd(s, p) ==
  IF p + 1 <= Len(s) /\ ~IsLineTerminator(s[p + 1]) THEN LineEnd(s, p + 1) ELSE p

\* The match of /data:\s*(\{.*\})/ at position p of s: [found, from, to], the
\* capture being s[from..to].  .* is greedy: the capture ends at the last }
\* of the line.
MatchAt(s, p) ==
  IF ~HasAt(s, p, DataMarker) THEN [found |-> FALSE, from |-> 0, to |-> 0]
  ELSE
    LET q == SkipSpace(s, p + Len(DataMarker)) IN
    IF q > Len(s) \/ s[q] # LBRACE THEN [found |-> FALSE, from |-> 0, to |-> 0]
    ELSE
      LET closers == {k \in (q + 1)..LineEnd(s, q) : s[k] = RBRACE} IN
      IF closers = {} THEN [found |-> FALSE, from |-> 0, to |-> 0]
      ELSE [found |-> TRUE, from |-> q,
            to |-> CHOOSE k \in closers : \A j \in closers : j <= k]

\* [...chunk.matchAll(/data:\s*(\{.*\})/g)]: the captures, from position p on.
RECURSIVE MatchAll(_, _)
MatchAll(s, p) ==
  IF p > Len(s) THEN <<>>
  ELSE LET m == MatchAt(s, p) IN
       IF m.found THEN <<SubSeq(s, m.from, m.to)>> \o MatchAll(s, m.to + 1)
       ELSE MatchAll(s, p + 1)

\* The for loop over the matches: the texts it forwards, in order.  A payload
\* that does not parse is caught and skipped, an empty text is not forwarded.
RECURSIVE ForwardedTexts(_)
ForwardedTexts(captures) ==
  IF captures = <<>> THEN <<>>
  ELSE LET e == ParseEvent(Head(captures)) IN
       (IF e.ok /\ e.text # <<>> THEN <<e.text>> ELSE <<>>)
         \o ForwardedTexts(Tail(captures))

\* As with a regular expression that finds the first match only.
FirstMatchOnly(value) ==
  LET all == MatchAll(Decode(value), 1) IN
  ForwardedTexts(IF all = <<>> THEN <<>> ELSE <<Head(all)>>)

\* One round of start()'s loop on the bytes value: the texts to forward.
ProcessChunk(value) == ForwardedTexts(MatchAll(Decode(value), 1))

EncodeAll(texts) == [i \in 1..Len(texts) |-> Encode(texts[i])]

\* The upstream answers ok with a body: POST returns the 200 response whose
\* body is the stream, and start() begins to read.
UpstreamOk(r, events) ==
  /\ reqs[r].pc = "fetch"
  /\ ~SignalAborted(r)
  /\ reqs' = [reqs EXCEPT ![r].pc = "stream", ![r].upStatus = 200, ![r].status = 200,
                          ![r].events = events, ![r].up = StreamBytes(events)]
  /\ UNCHANGED <<conversations, apiKey, now, ticks, generated, response, clientVars>>

\* reader.read() yields the next n bytes of the upstream body.
RelayRead(r, n) ==
  LET req == reqs[r]
      value == SubSeq(req.up, 1, n)
      texts == ProcessChunk(value)
  IN
  /\ req.pc = "stream"
  /\ ~SignalAborted(r)
  /\ n \in 1..Len(req.up)
  /\ reqs' = [reqs EXCEPT
       ![r].up = SubSeq(req.up, n + 1, Len(req.up)),
       ![r].pos = req.pos + n,
       ![r].whole = req.whole /\ (req.pos + n) \in EventEnds(req.events, 0),
       ![r].fullText = req.fullText \o Concat(texts),
       ![r].out = req.out \o EncodeAll(texts)]
  /\ UNCHANGED <<conversations, apiKey, now, ticks, generated, response, clientVars>>

\* As if the body were closed only after some text had been forwarded.
CloseOnlyWithText(r) ==
  /\ reqs[r].pc = "stream"
  /\ ~SignalAborted(r)
  /\ reqs[r].up = <<>>
  /\ response' = [Respond(r, 200, "", 0) EXCEPT
       !.events = reqs[r].events, !.whole = reqs[r].whole,
       !.fullText = reqs[r].fullText, !.out = reqs[r].out,
       !.closed = reqs[r].fullText # <<>>]
  /\ reqs' = [reqs EXCEPT ![r] = NoRequest]
  /\ UNCHANGED <<conversations, apiKey, now, ticks, generated, clientVars>>

\* reader.read() yields done: the loop breaks and controller.close() ends the
\* body of the response.
RelayDone(r) ==
  /\ reqs[r].pc = "stream"
  /\ ~SignalAborted(r)
  /\ reqs[r].up = <<>>
  /\ response' = [Respond(r, 200, "", 0) EXCEPT
       !.events = reqs[r].events, !.whole = reqs[r].whole,
       !.fullText = reqs[r].fullText, !.out = reqs[r].out, !.closed = TRUE]
  /\ reqs' = [reqs EXCEPT ![r] = NoRequest]
  /\ UNCHANGED <<conversations, apiKey, now, ticks, generated, clientVars>>

\* reader.read() rejects (the upstream body is errored: the connection broke,
\* or the call was aborted): start() rejects and the body of the response is
\* errored, not closed.
ReadFails(r) ==
  /\ reqs[r].pc = "stream"
  /\ response' = [Respond(r, 200, "", 0) EXCEPT
       !.events = reqs[r].events, !.whole = reqs[r].whole,
       !.fullText = reqs[r].fullText, !.out = reqs[r].out, !.closed = FALSE]
  /\ reqs' = [reqs EXCEPT ![r] = NoRequest]
  /\ UNCHANGED <<conversations, apiKey, now, ticks, generated, clientVars>>

\* The read loop of handleSend over the chunks of a response body, from
\* decoder state st and accumulator acc: the content the draft ends with.
RECURSIVE ReadLoop(_, _, _)
ReadLoop(chunks, st, acc) ==
  IF chunks = <<>> THEN acc
  ELSE LET d == DecodeStream(st, Head(chunks)) IN
       ReadLoop(Tail(chunks), d.st, acc \o d.out)

\* What the client's draft shows once it has read the chunks to the end.
FinalDraft(chunks) ==
  IF chunks = <<>> THEN Thinking ELSE DraftContent(ReadLoop(chunks, DecoderInit, <<>>))

----------------------------------------------------------------------------
(* Specifications *)

\* The client in a browser whose storage works, with or without a stored
\* session id.
InitClient ==
  /\ ClientInit
  /\ RelayInit
  /\ apiKey = TRUE
  /\ localStorage \in {null, 7}
  /\ storageMode = "ok"

NextClient ==
  \/ MountEffect
  \/ \E raw \in RawInputs : onSubmit(raw)
  \/ \E t \in 1..Len(turns) : FetchRejects(t)
  \/ \E t \in 1..Len(turns), st \in ErrorStatuses : ResponseNotOk(t, st)
  \/ \E t \in 1..Len(turns) : ThrowRequestFailed(t)
  \/ \E t \in 1..Len(turns), bytes \in ResponseBodies : ResponseOk(t, bytes)
  \/ \E t \in 1..Len(turns), n \in 1..MaxBodyBytes : ReadChunk(t, n)
  \/ \E t \in 1..Len(turns) : ReadDone(t)
  \/ \E t \in 1..Len(turns) : ReadRejects(t)

SpecClient == InitClient /\ [][NextClient]_vars

\* The relay with its cache: requests arrive at any time; an upstream that
\* answers ok sends a stream without events.
Init ==
  /\ ClientInit
  /\ localStorage = null
  /\ storageMode = "ok"
  /\ RelayInit
  /\ apiKey \in BOOLEAN

Next ==
  \/ \E r \in 1..MaxReq : Receive(r)
  \/ \E r \in 1..MaxReq : ParseFails(r)
  \/ \E r \in 1..MaxReq, body \in RequestBodies, d \in ClockSteps : PostSync(r, body, now + d)
  \/ \E r \in 1..MaxReq : FetchFails(r)
  \/ \E r \in 1..MaxReq, st \in UpstreamErrorStatuses : UpstreamError(r, st)
  \/ \E r \in 1..MaxReq : UpstreamOk(r, <<>>)
  \/ \E r \in 1..MaxReq : RelayDone(r)

Spec == Init /\ [][Next]_vars

\* One request whose upstream call is in flight; the upstream sends any
\* events and the relay reads them in chunks cut at any byte.
InitStream ==
  /\ ClientInit
  /\ response = NoResponse
  /\ localStorage = null
  /\ storageMode = "ok"
  /\ apiKey = TRUE
  /\ now = 0
  /\ ticks = 0
  /\ generated = 0
  /\ conversations =
       [k \in {1} |-> [messages |-> <<[role |-> "user", content |-> Hi]>>,
                       expiresAt |-> CONVO_TTL_MS]]
  /\ reqs = [r \in 1..MaxReq |->
       IF r = 1
         THEN [NoRequest EXCEPT !.pc = "fetch", !.calls = 1]
         ELSE NoRequest]

NextStream ==
  \/ \E events \in EventSeqs(MaxEvents) : UpstreamOk(1, events)
  \/ \E n \in 1..Len(reqs[1].up) : RelayRead(1, n)
  \/ RelayDone(1)

SpecStream == InitStream /\ [][NextStream]_vars

----------------------------------------------------------------------------
(* Claims about the client *)

\* A turn is Sending ("fetch", "text") or Streaming ("read").
Outstanding(t) == turns[t].pc \in {"fetch", "text", "read"}

TurnOutstanding == \E t \in 1..Len(turns) : Outstanding(t)

\* The content the transcript shows for turn t's draft.
DraftOf(t) ==
  LET i == CHOOSE j \in 1..Len(messages) : messages[j].id = turns[t].draftId IN
  messages[i].content

\* A byte string is UTF-8 when decoding it whole replaces nothing.
ValidUtf8(bytes) == \A i \in 1..Len(Decode(bytes)) : Decode(bytes)[i] # REPLACEMENT

\* C1: a submission of text that is not blank, made with a session identifier
\* and no turn outstanding, appends to the transcript the user message and then
\* the draft with the pending sentinel, exactly these two; the messages before
\* them stay as they were; and the turn is then still waiting for its response.
C1_SubmitAppendsUserThenDraft ==
  [][\A raw \in RawInputs :
       (onSubmit(raw) /\ Trim(raw) # <<>> /\ sessionId # null /\ ~TurnOutstanding)
       => LET n == Len(messages) IN
          /\ Len(messages') = n + 2
          /\ SubSeq(messages', 1, n) = messages
          /\ messages'[n + 1].role = "user"
          /\ messages'[n + 1].content = Trim(raw)
          /\ messages'[n + 2].role = "assistant"
          /\ messages'[n + 2].content = Thinking
          /\ messages'[n + 1].id # messages'[n + 2].id
          /\ Len(turns') = Len(turns) + 1
          /\ turns'[Len(turns')].pc = "fetch"
          /\ turns'[Len(turns')].draftId = messages'[n + 2].id]_vars

\* The second turn has just been submitted after a first one that streamed a
\* reply: four messages, the last the pending draft, no response yet.
C1_Witness ==
  /\ Len(turns) = 2
  /\ turns[1].pc = "completed"
  /\ turns[2].pc = "fetch"
  /\ Len(messages) = 4
  /\ messages[2].content = <<8364>>
  /\ messages[3].role = "user"
  /\ messages[4].content = Thinking

\* C2: a submission while a turn is Sending or Streaming changes nothing: the
\* transcript stays as it is, no handleSend starts and no request is sent.
C2_SubmitWhileOutstandingIsNoOp ==
  [][\A raw \in RawInputs :
       (onSubmit(raw) /\ TurnOutstanding) => UNCHANGED <<messages, requests, turns>>]_vars

\* A turn is streaming, with part of its reply shown, the user submits text
\* that is not blank, and another turn would fit the bound.
C2_Witness ==
  /\ Len(turns) = 1
  /\ Len(turns) < MaxTurns
  /\ turns[1].pc = "read"
  /\ turns[1].acc # <<>>
  /\ turns[1].body # <<>>
  /\ ENABLED onSubmit(<<32, 72, 105, 32>>)

\* C4 as claimed: once the stream of a UTF-8 body has completed, the draft
\* shows the decoding of the whole body.
C4_Original_FinalIsDecodingOfWhole ==
  \A t \in 1..Len(turns) :
    (turns[t].pc = "completed" /\ ValidUtf8(turns[t].stream))
    => DraftOf(t) = Decode(turns[t].stream)

\* C4 amended: once the stream of a UTF-8 body has completed, the draft shows
\* the decoding of the whole body if that is not empty, and the pending
\* sentinel if it is, however the body was cut into chunks.
C4_FinalIsDecodingOrSentinel ==
  \A t \in 1..Len(turns) :
    (turns[t].pc = "completed" /\ ValidUtf8(turns[t].stream))
    => DraftOf(t) = (IF Decode(turns[t].stream) = <<>> THEN Thinking
                     ELSE Decode(turns[t].stream))

\* A completed stream of two characters of which a read ended inside one.
C4_Witness ==
  \E t \in 1..Len(turns) :
    /\ turns[t].pc = "completed"
    /\ turns[t].cut
    /\ turns[t].stream = Encode(<<233, 8364>>)
    /\ DraftOf(t) = <<233, 8364>>

----------------------------------------------------------------------------
(* Claims about the relay's stream *)

Hello == <<72, 101, 108, 108, 111>>

\* The text fragment an event carries: none in a payload that is not JSON or
\* that has no text.
EventText(payload) ==
  IF payload = TextPayload(Hel) THEN Hel
  ELSE IF payload = TextPayload(lo) THEN lo
  ELSE <<>>

\* The fragments of the events that have one, in upstream order.
RECURSIVE Fragments(_)
Fragments(events) ==
  IF events = <<>> THEN <<>>
  ELSE (IF EventText(Head(events)) # <<>> THEN <<EventText(Head(events))>> ELSE <<>>)
         \o Fragments(Tail(events))

\* C3 as claimed: when every event was delivered whole, the relay has
\* forwarded one chunk per text fragment, in upstream order, and the client's
\* draft ends as the concatenation of the fragments.
C3_Original_DraftIsConcatenation ==
  (response.closed /\ response.whole)
  => /\ response.out = EncodeAll(Fragments(response.events))
     /\ FinalDraft(response.out) = Concat(Fragments(response.events))

\* C3 amended: when every event was delivered whole, the relay has forwarded
\* one chunk per text fragment, in upstream order, and the client's draft ends
\* as the concatenation of the fragments if there is any text, and as the
\* pending sentinel if there is none.
C3_ForwardsFragmentsInOrder ==
  (response.closed /\ response.whole)
  => /\ response.out = EncodeAll(Fragments(response.events))
     /\ FinalDraft(response.out) =
          (IF Concat(Fragments(response.events)) = <<>> THEN Thinking
           ELSE Concat(Fragments(response.events)))

\* "Hel" then "lo", each event read whole, forwarded as two chunks and read by
\* the client as "Hello".
C3_Witness ==
  /\ response.closed
  /\ response.whole
  /\ response.events = <<TextPayload(Hel), TextPayload(lo)>>
  /\ response.out = <<Encode(Hel), Encode(lo)>>
  /\ FinalDraft(response.out) = Hello

\* An event that is not JSON stands between two events with text.
BadBetweenValid(events) ==
  \E i, j, k \in 1..Len(events) :
    /\ i < j /\ j < k
    /\ EventText(events[i]) # <<>>
    /\ events[j] = BadPayload
    /\ EventText(events[k]) # <<>>

\* C5: when an event that is not JSON stands between events with text, the
\* stream still runs to its close and the text forwarded is the concatenation
\* of the texts of the events that are JSON, in order.
C5_SkipsBadJson ==
  (response.closed /\ BadBetweenValid(response.events))
  => /\ Concat(response.out) = Encode(Concat(Fragments(response.events)))
     /\ response.fullText = Concat(Fragments(response.events))

----------------------------------------------------------------------------
(* Claims about the relay's responses and its cache *)

\* Call r of POST ends in this step.
Ends(r) == reqs[r].pc # "none" /\ reqs'[r].pc = "none"

\* C6 as claimed: without the credential every request is answered 500 and no
\* upstream call is made.
C6_Original_EveryRequest500 ==
  [][~apiKey =>
       /\ \A r \in 1..MaxReq : Ends(r) => response'.status = 500
       /\ \A r \in 1..MaxReq : reqs'[r].calls = 0]_vars

\* C6 amended: without the credential no upstream call is made, every request
\* whose body parses is answered 500, and one whose body does not parse is
\* answered 400.
C6_NoKeyNoUpstreamCall ==
  [][~apiKey =>
       /\ \A r \in 1..MaxReq : reqs'[r].calls = 0 /\ reqs'[r].pc \in {"none", "json"}
       /\ response'.calls = 0
       /\ \A r \in 1..MaxReq, body \in RequestBodies :
            PostSync(r, body, now')
            => response'.status = 500 /\ response'.text = "Missing GEMINI_API_KEY"
       /\ \A r \in 1..MaxReq : ParseFails(r) => response'.status = 400]_vars

\* Without the credential a request has been answered 500, with no upstream
\* call.
C6_Witness ==
  /\ ~apiKey
  /\ response.status = 500
  /\ response.text = "Missing GEMINI_API_KEY"
  /\ response.calls = 0

\* C7: the response to an upstream answer that is not ok, or is ok without a
\* body, has status 502 and carries the upstream status in its body; the call
\* of POST made one upstream call, and no call of POST ever makes a second.
C7_UpstreamErrorIs502 ==
  /\ response.upStatus \in UpstreamErrorStatuses
       => /\ response.status = 502
          /\ response.text = "Upstream error"
          /\ response.bodyStatus = response.upStatus
          /\ response.calls = 1
  /\ \A r \in 1..MaxReq : reqs[r].calls <= 1

\* The upstream answered 500 and the relay 502 with that status in the body.
C7_Witness ==
  /\ response.upStatus = 500
  /\ response.status = 502
  /\ response.bodyStatus = 500

\* C8: when the upstream call itself fails, the relay answers 502 with
\* diagnostic detail.
C8_TransportFailureIs502 ==
  [][\A r \in 1..MaxReq :
       FetchFails(r) => response'.status = 502 /\ response'.text = "Upstream error"]_vars

\* C9: a 400 is the answer to a request that could not be processed, and it
\* comes with no partial processing: the step that answers 400 leaves the cache
\* as it was, and the call of POST it ends has written no cache entry and made
\* no upstream call.
C9_BadRequestWithoutPartialProcessing ==
  [][\A r \in 1..MaxReq :
       (Ends(r) /\ response'.status = 400)
       => conversations' = conversations /\ reqs[r].calls = 0]_vars

\* C10: a step of POST that reads the time t sweeps the cache: an entry whose
\* expiry, the time it was set plus the TTL, lies before t is gone after the
\* sweep, and an entry of another session whose expiry lies after t is as it
\* was; the entry the step sets is present with expiry t plus the TTL.
C10_CacheExpiry ==
  [][\A r \in 1..MaxReq, body \in RequestBodies :
       PostSync(r, body, now')
       => LET t == now'
              sets == apiKey /\ body.shape = "ok"
              sid == SessionOf(body)
          IN
          /\ sets => /\ sid \in DOMAIN conversations'
                     /\ conversations'[sid].expiresAt = t + CONVO_TTL_MS
          /\ \A k \in DOMAIN conversations :
               /\ conversations[k].expiresAt < t
                    => /\ k \notin DOMAIN cleanupExpired(conversations, t)
                       /\ ~(sets /\ k = sid) => k \notin DOMAIN conversations'
               /\ (conversations[k].expiresAt > t /\ ~(sets /\ k = sid))
                    => /\ k \in DOMAIN conversations'
                       /\ conversations'[k] = conversations[k]]_vars

\* The entry of the generated session, set at time 0, is gone after a sweep at
\* 2 TTL - 2, while the entry of session 2, set at TTL - 1, is still there.
C10_Witness ==
  /\ apiKey
  /\ generated = 1
  /\ 1001 \notin DOMAIN conversations
  /\ now = 2 * CONVO_TTL_MS - 2
  /\ 2 \in DOMAIN conversations
  /\ conversations[2].expiresAt = 2 * CONVO_TTL_MS - 1

----------------------------------------------------------------------------
(* Claims about the end of the relay's stream *)

\* One request whose upstream call is in flight, as in SpecStream, with fewer
\* events.  The event loop runs the continuation of a read that has resolved:
\* a chunk that has arrived is processed, and the end of the upstream body is
\* seen.
NextStreamLive ==
  \/ \E events \in EventSeqs(MaxLiveEvents) : UpstreamOk(1, events)
  \/ \E n \in 1..Len(reqs[1].up) : RelayRead(1, n)
  \/ RelayDone(1)

SpecStreamLive ==
  /\ InitStream
  /\ [][NextStreamLive]_vars
  /\ WF_vars(\E n \in 1..Len(reqs[1].up) : RelayRead(1, n))
  /\ WF_vars(RelayDone(1))

\* The upstream has answered ok and call r has read its body to the end.
UpstreamEnded(r) == reqs[r].pc = "stream" /\ reqs[r].up = <<>>

\* C11: the body of the response is closed in no step but one taken when the
\* upstream body has been read to its end, and once the upstream body has
\* ended, with text forwarded or without, the body of the response is
\* eventually closed.
C11_ClosesExactlyAtUpstreamEnd ==
  /\ [][(~response.closed /\ response'.closed) => UpstreamEnded(1)]_vars
  /\ (UpstreamEnded(1) ~> response.closed)

\* The upstream body has ended and the response is closed, no text having
\* been forwarded.
C11_Witness ==
  /\ response.closed
  /\ response.status = 200
  /\ response.events = <<NoTextPayload, BadPayload>>
  /\ response.out = <<>>

----------------------------------------------------------------------------
(* Claims about the client's turns *)

\* C12: a rejected request, a response that is not ok and an error while the
\* body is read each end the turn as Failed; the step in which a turn fails
\* clears loading, shows the generic error and leaves the transcript as it
\* was, the draft holding what the turn had accumulated.
C12_FailureKeepsPartialContent ==
  [][\A t \in 1..Len(turns) :
       /\ (FetchRejects(t) \/ ThrowRequestFailed(t) \/ ReadRejects(t))
            => turns'[t].pc = "failed"
       /\ (\E st \in ErrorStatuses : ResponseNotOk(t, st))
            => turns'[t].pc = "text" /\ messages' = messages
       /\ (Outstanding(t) /\ turns'[t].pc = "failed")
            => /\ loading' = FALSE
               /\ error' = GenericError
               /\ messages' = messages
               /\ DraftOf(t) = DraftContent(turns[t].acc)]_vars

\* A turn failed while its body was being read: the draft shows the part that
\* had arrived, the error is shown and loading is cleared.
C12_Witness ==
  /\ Len(turns) = 1
  /\ turns[1].pc = "failed"
  /\ turns[1].acc = <<8364>>
  /\ turns[1].body # <<>>
  /\ DraftOf(1) = <<8364>>
  /\ error = GenericError
  /\ ~loading

----------------------------------------------------------------------------
(* Claims about cancellation *)

\* One request whose upstream call is in flight; the client may go away at
\* any time, and the upstream call may fail by itself.  An aborted call ends:
\* the rejection of the fetch, or of the read, is delivered.
NextCancel ==
  \/ \E events \in EventSeqs(MaxLiveEvents) : UpstreamOk(1, events)
  \/ \E n \in 1..Len(reqs[1].up) : RelayRead(1, n)
  \/ RelayDone(1)
  \/ Cancel(1)
  \/ FetchFails(1)
  \/ ReadFails(1)

SpecCancel ==
  /\ InitStream
  /\ [][NextCancel]_vars
  /\ WF_vars(SignalAborted(1) /\ FetchFails(1))
  /\ WF_vars(SignalAborted(1) /\ ReadFails(1))

\* C13: once the request is cancelled while its upstream call is in flight,
\* nothing more is taken from the upstream: the call's next step is its end by
\* the abort, with the body of the response not closed and nothing forwarded
\* beyond what had been; and that end eventually comes.
C13_CancelAbortsUpstream ==
  /\ [][reqs[1].aborted =>
          \/ reqs'[1] = reqs[1]
          \/ /\ reqs'[1].pc = "none"
             /\ response'.aborted
             /\ ~response'.closed
             /\ response'.out = reqs[1].out]_vars
  /\ (reqs[1].aborted ~> (reqs[1].pc = "none" /\ response.aborted))

\* The request was cancelled during streaming, after the first of two texts
\* had been forwarded: the call has ended without the second.
C13_Witness ==
  /\ reqs[1].pc = "none"
  /\ response.aborted
  /\ response.status = 200
  /\ ~response.closed
  /\ response.events = <<TextPayload(Hel), TextPayload(lo)>>
  /\ response.out = <<Encode(Hel)>>

----------------------------------------------------------------------------
(* Claims about concurrent requests and what the cache holds *)

\* The entries the cache conv holds for session k: one, or none.
EntriesOf(conv, k) == IF k \in DOMAIN conv THEN {conv[k]} ELSE {}

\* The entry of session k is not after this step what it was before.
EntryChanges(k) == EntriesOf(conversations', k) # EntriesOf(conversations, k)

\* This step is the synchronous run of a request for session k.
RequestFor(k) ==
  \E r \in 1..MaxReq, body \in RequestBodies :
    PostSync(r, body, now') /\ SessionOf(body) = k

\* A request that writes the cache leaves for its session the one entry with
\* what it stored.
LastWriteWins ==
  \A r \in 1..MaxReq, body \in RequestBodies :
    (reqs[r].pc = "json" /\ reqs'[r].pc = "fetch" /\ PostSync(r, body, now'))
    => EntriesOf(conversations', SessionOf(body)) =
         {[messages |-> toStore(body.msgs), expiresAt |-> now' + CONVO_TTL_MS]}

\* C14 as claimed: however the requests interleave, the entry of a session is
\* changed by no step but one of a request for that session, and a request
\* that writes leaves for its session the one entry with what it stored.
C14_Original_OnlyOwnRequestChangesEntry ==
  [][/\ \A k \in DOMAIN conversations \cup DOMAIN conversations' :
          EntryChanges(k) => RequestFor(k)
     /\ LastWriteWins]_vars

\* C14 amended: however the requests interleave, the entry of a session is
\* changed by no step but one of a request for that session, or one whose
\* sweep removes it after its expiry has passed; and a request that writes
\* leaves for its session the one entry with what it stored.
C14_OnlyOwnRequestOrExpiryChangesEntry ==
  [][/\ \A k \in DOMAIN conversations \cup DOMAIN conversations' :
          EntryChanges(k)
          => \/ RequestFor(k)
             \/ /\ k \in DOMAIN conversations
                /\ conversations[k].expiresAt <= now'
                /\ k \notin DOMAIN conversations'
     /\ LastWriteWins]_vars

\* Two requests are in flight at once, and the cache holds the entries of
\* sessions 1 and 2, written at different times.
C14_Witness ==
  /\ reqs[1].pc = "fetch"
  /\ reqs[2].pc = "fetch"
  /\ {1, 2} \subseteq DOMAIN conversations
  /\ conversations[1].expiresAt # conversations[2].expiresAt

----------------------------------------------------------------------------
(* Claims about the session identifier *)

\* The client in a browser whose storage works, or throws on reads, or throws
\* on writes; the page may be reloaded.
InitSession ==
  /\ ClientInit
  /\ RelayInit
  /\ apiKey = TRUE
  /\ localStorage \in {null, 7}
  /\ storageMode \in {"ok", "noread", "nowrite"}

NextSession ==
  \/ MountEffect
  \/ Reload
  \/ \E raw \in RawInputs : onSubmit(raw)
  \/ \E t \in 1..Len(turns) : FetchRejects(t)
  \/ \E t \in 1..Len(turns), st \in ErrorStatuses : ResponseNotOk(t, st)
  \/ \E t \in 1..Len(turns) : ThrowRequestFailed(t)

SpecSession == InitSession /\ [][NextSession]_vars

\* C15: where reads of the storage fail, or writes, the client has a session
\* identifier once the session effect has run, and a submission of text then
\* starts a turn.
C15_IdentifierWithoutPersistence ==
  (storageMode # "ok" /\ mounted # "no")
  => /\ sessionId # null
     /\ (~loading /\ Len(turns) < MaxTurns) => ~inputDisabled

\* C16: with storage that works, every run of the session effect gives the
\* identifier that is stored: it makes and stores one only when none is
\* stored, and what is stored is never replaced.
C16_StoredIdentifierIsStable ==
  [][storageMode = "ok" =>
       /\ MountEffect =>
            /\ sessionId' = localStorage'
            /\ localStorage # null => (sessionId' = localStorage /\ uuid' = uuid)
            /\ localStorage = null => (localStorage' = uuid' /\ uuid' # uuid)
       /\ localStorage # null => localStorage' = localStorage
       /\ sessionId' # null => sessionId' = localStorage']_vars

\* The page was reloaded after a turn, and the effect has run again: the
\* identifier is the one made and stored by the first run.
C16_Witness ==
  /\ storageMode = "ok"
  /\ Len(turns) = 1
  /\ turns[1].pc = "unloaded"
  /\ requests[1].sessionId = 101
  /\ mounted = "yes"
  /\ sessionId = 101
  /\ localStorage = 101

----------------------------------------------------------------------------
(* Claims about split events and about what is stored *)

\* What the relay forwards of events of which each arrives as one chunk.
RECURSIVE ForwardedWhole(_)
ForwardedWhole(events) ==
  IF events = <<>> THEN <<>>
  ELSE ProcessChunk(Encode(EventLine(Head(events)))) \o ForwardedWhole(Tail(events))

\* C17: however the upstream body was cut into chunks, the text the relay has
\* forwarded when the stream is closed is the text it forwards when each event
\* arrives whole.
C17_SplitEventsTolerated ==
  response.closed
  => Concat(response.out) = Concat(EncodeAll(ForwardedWhole(response.events)))

\* A message history without its last message, if that is an assistant
\* message with no content.
DropTrailingEmptyAssistant(ms) ==
  IF ms # <<>> /\ ms[Len(ms)].role = "assistant" /\ ms[Len(ms)].content = <<>>
    THEN SubSeq(ms, 1, Len(ms) - 1)
    ELSE ms

\* C18: a request that goes on to its upstream call has by then set the entry
\* of its session to its message history without a trailing empty assistant
\* message, every other message kept in order, with the expiry the time of
\* the write plus the TTL.
C18_StoresHistoryWithoutTrailingDraft ==
  [][\A r \in 1..MaxReq, body \in RequestBodies :
       (reqs[r].pc = "json" /\ reqs'[r].pc = "fetch" /\ PostSync(r, body, now'))
       => /\ reqs'[r].calls = 1
          /\ EntriesOf(conversations', SessionOf(body)) =
               {[messages |-> DropTrailingEmptyAssistant(body.msgs),
                 expiresAt |-> now' + CONVO_TTL_MS]}]_vars

----------------------------------------------------------------------------
(* Claims about the transcript *)

\* A turn is Completed or Failed.
Ended(t) == turns[t].pc \in {"completed", "failed"}

\* The drafts in the transcript that belong to a turn still Sending or
\* Streaming.
DraftsAwaiting ==
  {i \in 1..Len(messages) :
     /\ messages[i].role = "assistant"
     /\ \E t \in 1..Len(turns) : Outstanding(t) /\ turns[t].draftId = messages[i].id}

\* C19: at most one turn is Sending or Streaming, at most one draft in the
\* transcript awaits content, and every turn but the last has ended: a turn
\* was started only when the one before had Completed or Failed.
C19_OneOutstandingTurn ==
  /\ Cardinality({t \in 1..Len(turns) : Outstanding(t)}) <= 1
  /\ Cardinality(DraftsAwaiting) <= 1
  /\ \A t \in 1..(Len(turns) - 1) : Ended(t)

\* A second turn is streaming after the first has failed.
C19_Witness ==
  /\ Len(turns) = 2
  /\ turns[1].pc = "failed"
  /\ turns[2].pc = "read"
  /\ loading
  /\ Cardinality(DraftsAwaiting) = 1

\* The bytes of its response body that turn t has read.
Received(t) == SubSeq(turns[t].stream, 1, Len(turns[t].stream) - Len(turns[t].body))

\* The text of the bytes a turn has read: the characters that are complete.
TextSoFar(t) == DecodeStream(DecoderInit, Received(t)).out

\* C20: no assistant message in the transcript has empty content; the draft
\* of every turn shows the whole text of the bytes read so far, or the pending
\* sentinel while that text is empty; and the step that shows a chunk changes
\* no message but that draft.
C20_DraftNeverEmpty ==
  /\ [](\A i \in 1..Len(messages) :
          messages[i].role = "assistant" => messages[i].content # <<>>)
  /\ [](\A t \in 1..Len(turns) :
          DraftOf(t) = (IF TextSoFar(t) = <<>> THEN Thinking ELSE TextSoFar(t)))
  /\ [][\A t \in 1..Len(turns), n \in 1..MaxBodyBytes :
          ReadChunk(t, n)
          => /\ Len(messages') = Len(messages)
             /\ \A i \in 1..Len(messages) :
                  messages[i].id # turns[t].draftId => messages'[i] = messages[i]]_vars

\* A turn has read a first chunk that ends inside a character: no text yet,
\* and the draft shows the pending sentinel.
C20_Witness ==
  /\ Len(turns) = 1
  /\ turns[1].pc = "read"
  /\ Received(1) = <<226, 130>>
  /\ turns[1].acc = <<>>
  /\ DraftOf(1) = Thinking

=============================================================================
